---- MODULE Spec2Model ----
(***************************************************************************)
(* Multi-provider orchestration engine of server/orchestrator_v2.py:       *)
(* circuit breaker, retry loop, cache integration, fan-out with an outer   *)
(* deadline, final-answer choice, and the submit_query handler of          *)
(* server/app.py that calls it.  Time is counted in milliseconds.          *)
(***************************************************************************)
EXTENDS Integers, Sequences, FiniteSets, TLC

(* ------------------------------ bounds --------------------------------- *)
MaxRequests == 3        \* requests served in one behaviour
MaxProviders == 2       \* longest requested provider list
MaxConcurrent == 1      \* requests in progress at the same time
Latency == 200          \* duration of a quick provider call, ms
ArrivalPeriod == 60000  \* requests arrive at multiples of this, ms
RaceRequests == 4       \* requests of which two at a time run side by side
RaceConcurrent == 2
LastArrival == 3        \* the last period at whose start a request can arrive
CacheRequests == 2      \* requests in a behaviour of the cache specification
FanOutRequests == 1     \* requests in a behaviour of the fan-out specification
DupRequests == 3        \* requests in a behaviour of the duplicate-write specification

(* ------------------------- program constants --------------------------- *)
CIRCUIT_FAILS == 3
COOLDOWN_SECONDS == 120
RETRYABLE_ERROR_TYPES == {"timeout", "rate_limited", "provider_down"}
max_retries == 2
timeout == 30
HARD_DEADLINE_BUFFER == 10
BACKOFF_BASE_MS == 600
NO_PROVIDER_SUCCEEDED == "No provider succeeded. Try again."

\* keys of PROVIDER_CONFIGS that the model uses, in the order of the dict
PROVIDER_CONFIGS == <<"groq", "gemini", "cohere">>
\* providers constructed at import time (those with an API key)
PROVIDERS == {"gemini", "groq"}
\* columns of the Cache table
CacheColumns == {"cache_id", "query_hash", "agent_id", "response_text", "created_timestamp"}
\* module-level names of orchestrator_v2 that the synthesis step may call
DefinedNames == {"_pick_first_success_provider_id", "build_synthesis_prompt",
                 "get_first_initialized_provider_id", "generate_query_hash"}

(* ------------------------------ inputs --------------------------------- *)
\* the calls of orchestrate_query that can be in progress or waiting to be taken
Requests == 1..(IF MaxConcurrent > DupRequests THEN MaxConcurrent ELSE DupRequests)
Users == {"1", "2"}
Queries == {"Explain X"}
ProviderIds == {PROVIDER_CONFIGS[i] : i \in 1..Len(PROVIDER_CONFIGS)}
ProviderLists == UNION {[1..n -> ProviderIds] : n \in 1..MaxProviders}
Sessions == {"none", "session"}
ErrorTypes == {"timeout", "rate_limited", "provider_down", "auth_error",
               "bad_request", "model_not_found", "unknown", "missing"}
RetryHints == {2000, 60000}
ExceptionKinds == {"TimeoutError", "RuntimeError"}
AnswerOf(pid) == "answer of " \o pid
Blank == " "

\* s[:n]
Prefix(s, n) == SubSeq(s, 1, IF Len(s) < n THEN Len(s) ELSE n)

\* BaseProvider.format_error: the message is cut at 500 characters
format_error(error_message) == Prefix(error_message, 500)

\* the message a provider gives with an error, and str() of an exception it raises
ProviderMessage == "HTTP 500: upstream error"
ExceptionMessage == "connection reset"

Outcome(kind, text, etype, hint, exc) ==
    [kind |-> kind, text |-> text, error_type |-> etype, retry_after_ms |-> hint, exc |-> exc,
     response_time_ms |-> Latency,
     error_message |-> IF kind = "error" THEN format_error(ProviderMessage)
                       ELSE IF kind = "raise" THEN ExceptionMessage ELSE ""]

\* the response_time_ms a provider reports with a success
ReportedMs(pid) == Latency + 100 * Len(pid)

\* what one call of provider.query can do
Outcomes(pid) ==
    {[Outcome("success", t, "missing", 0, "none") EXCEPT !.response_time_ms = ReportedMs(pid)] :
        t \in {AnswerOf(pid), Blank}}
    \cup {Outcome("error", "", e, 0, "none") : e \in ErrorTypes}
    \cup {Outcome("error", "", "rate_limited", h, "none") : h \in RetryHints}
    \cup {Outcome("raise", "", "missing", 0, x) : x \in ExceptionKinds}

\* the outcomes used where several providers run side by side
FanOutOutcomes(pid) ==
    {o \in Outcomes(pid) : o.error_type \in {"timeout", "bad_request", "missing"}
                            /\ o.retry_after_ms = 0}

\* the outcomes used where the breaker is followed over several requests
BreakerOutcomes(pid) ==
    {o \in Outcomes(pid) : o.text # Blank /\ o.retry_after_ms = 0 /\ o.exc # "TimeoutError"}

(* ----------------------------- helpers --------------------------------- *)
Range(s) == {s[i] : i \in DOMAIN s}

\* the strings the model sorts, in the order of Python's str comparison
StringOrder == <<"cohere", "gemini", "gemini|groq", "groq">>

Rank(pid) == CHOOSE i \in 1..Len(StringOrder) : StringOrder[i] = pid

RECURSIVE SelectSeqBy(_, _)
\* [x for x in s if x in S], the list comprehensions of orchestrate_query
SelectSeqBy(s, S) ==
    IF s = <<>> THEN <<>>
    ELSE IF Head(s) \in S THEN <<Head(s)>> \o SelectSeqBy(Tail(s), S)
         ELSE SelectSeqBy(Tail(s), S)

RECURSIVE InsertSorted(_, _)
InsertSorted(x, s) ==
    IF s = <<>> THEN <<x>>
    ELSE IF Rank(x) <= Rank(Head(s)) THEN <<x>> \o s
         ELSE <<Head(s)>> \o InsertSorted(x, Tail(s))

\* mutant: the list is joined in the order given
unsorted(s) == s

RECURSIVE sorted(_)
sorted(s) == IF s = <<>> THEN <<>> ELSE InsertSorted(Head(s), sorted(Tail(s)))

RECURSIVE join(_, _)
\* sep.join(s)
join(sep, s) ==
    IF s = <<>> THEN ""
    ELSE IF Len(s) = 1 THEN s[1]
         ELSE s[1] \o sep \o join(sep, Tail(s))

\* the content that generate_query_hash digests; sha256 is taken as injective
generate_query_hash(user_id, query_text, agent_ids) ==
    user_id \o ":" \o query_text \o ":" \o join("|", sorted(agent_ids))

\* a provider/orchestrator result dict
Res(status, etype, text, rt, ra, att, cached) ==
    [status |-> status, error_type |-> etype, response_text |-> text,
     response_time_ms |-> rt, retry_after_ms |-> ra, attempt |-> att, cached |-> cached,
     error_message |-> ""]

NoRes == Res("none", "missing", "", 0, 0, -1, FALSE)

DefaultState == [fail_count |-> 0, cooldown_until |-> 0]

(* ------------------------- ordered dictionaries ------------------------ *)
EmptyDict == [keys |-> <<>>, val |-> <<>>]

Has(d, k) == k \in Range(d.keys)

\* d[k] = v: a new key goes to the end, an existing key keeps its place
DictSet(d, k, v) ==
    [keys |-> IF Has(d, k) THEN d.keys ELSE Append(d.keys, k),
     val |-> [x \in Range(d.keys) \cup {k} |-> IF x = k THEN v ELSE d.val[x]]]

RECURSIVE DictMergeFrom(_, _, _)
DictMergeFrom(a, b, i) ==
    IF i > Len(b.keys) THEN a
    ELSE DictMergeFrom(DictSet(a, b.keys[i], b.val[b.keys[i]]), b, i + 1)

\* {**a, **b}
DictMerge(a, b) == DictMergeFrom(a, b, 1)

(* ------------------------------- state --------------------------------- *)
VARIABLES
    now,             \* time.time(), in ms
    PROVIDER_STATE,  \* breaker state per provider id
    cache,           \* committed rows of the cache table
    req,             \* the requests in progress: arguments, locals and tasks of each call
    started,         \* number of requests received so far
    served,          \* <<user, query, provider list, provider>> of every fresh success
                     \* returned by a call that was given a session
    fingerprints     \* the calls of generate_query_hash made on their own: arguments and result

vars == <<now, PROVIDER_STATE, cache, req, started, served, fingerprints>>

NewTask(pid) ==
    [pid |-> pid, pc |-> "ready", attempt |-> 0, backoff_ms |-> BACKOFF_BASE_MS,
     call_start |-> 0, wake |-> 0, calls |-> 0,
     open_at_start |-> FALSE, open_at_success |-> FALSE, cut |-> FALSE, kind |-> "pending", result |-> NoRes]

IdleReq ==
    [pc |-> "idle", via |-> "none", caller_user |-> "", user_id |-> "", query_text |-> "",
     provider_ids |-> <<>>, db |-> "none", query_hash |-> "", served_before |-> {},
     cached_responses |-> EmptyDict, uncached_providers |-> <<>>, to_run |-> <<>>,
     skipped_uninitialized |-> <<>>, dispatched |-> 0, tasks |-> <<>>,
     responses |-> EmptyDict, final_answer |-> "", synth_provider_id |-> "none",
     synth_called |-> FALSE, synth_kind |-> "none", synth_text |-> "", store_tried |-> {},
     metadata |-> <<>>, finished |-> 0]

Init ==
    /\ now = 0
    /\ PROVIDER_STATE = [p \in ProviderIds |-> DefaultState]
    /\ cache = {}
    /\ req = [r \in Requests |-> IdleReq]
    /\ started = 0
    /\ served = {}
    /\ fingerprints = <<>>

(* --------------------------- circuit breaker --------------------------- *)
\* PROVIDER_STATE.get(provider_id, {...})
StateOf(pid) == PROVIDER_STATE[pid]

\* mutant: the breaker check is left out
InCooldownNever(state, t) == FALSE

\* mutant: the circuit stays open until a success resets the count
InCooldownUntilReset(state, t) == state.fail_count >= CIRCUIT_FAILS

\* the breaker check at the start of _query_with_retries
InCooldown(state, t) == state.cooldown_until > t

\* the result returned while the circuit is open
OpenCircuitResult == Res("error", "provider_down", "", 0, 0, 0, FALSE)

\* f"Provider in cooldown until {state['cooldown_until']:.0f}", in seconds
CooldownMessage(state) == "Provider in cooldown until " \o ToString(state.cooldown_until \div 1000)

\* mutant: the count is reset, the cooldown is left as it is
BreakerKeepsCooldown(state) == [state EXCEPT !.fail_count = 0]

\* the state written after a successful attempt
BreakerAfterSuccess(state) == DefaultState

\* mutant: the circuit opens one failure late
BreakerOpensLate(state, err_type, t) ==
    LET fc == state.fail_count + 1
    IN [fail_count |-> fc,
        cooldown_until |-> IF fc > CIRCUIT_FAILS THEN t + COOLDOWN_SECONDS * 1000
                           ELSE state.cooldown_until]

\* mutant: the count is taken from the state read at the breaker check, when
\* the execute began
BreakerFromStaleRead(state, err_type, t) ==
    [fail_count |-> 1,
     cooldown_until |-> IF 1 >= CIRCUIT_FAILS THEN t + COOLDOWN_SECONDS * 1000
                        ELSE state.cooldown_until]

\* mutant: the circuit opens one failure early
BreakerOpensEarly(state, err_type, t) ==
    LET fc == state.fail_count + 1
    IN [fail_count |-> fc,
        cooldown_until |-> IF fc >= CIRCUIT_FAILS - 1 THEN t + COOLDOWN_SECONDS * 1000
                           ELSE state.cooldown_until]

\* mutant: the cooldown is set only when the count reaches the threshold
BreakerOpensOnce(state, err_type, t) ==
    LET fc == state.fail_count + 1
    IN [fail_count |-> fc,
        cooldown_until |-> IF fc = CIRCUIT_FAILS THEN t + COOLDOWN_SECONDS * 1000
                           ELSE state.cooldown_until]

\* "update breaker": the state written when the retry loop ends without success
BreakerAfterFailure(state, err_type, t) ==
    LET fc == state.fail_count + 1
    IN [fail_count |-> fc,
        cooldown_until |-> IF fc >= CIRCUIT_FAILS THEN t + COOLDOWN_SECONDS * 1000
                           ELSE state.cooldown_until]

(* ------------------------------ retry loop ----------------------------- *)
\* result.get("error_type", "unknown")
ErrTypeOf(o) == IF o.error_type = "missing" THEN "unknown" ELSE o.error_type

\* mutant: the category of the error is not looked at
StopsRetryingOnLastOnly(err_type, attempt) == attempt > max_retries

\* mutant: the loop allows one attempt more
StopsRetryingLate(err_type, attempt) ==
    err_type \notin RETRYABLE_ERROR_TYPES \/ attempt > max_retries + 1

\* the break condition of the retry loop, after a failed attempt
StopsRetrying(err_type, attempt) ==
    err_type \notin RETRYABLE_ERROR_TYPES \/ attempt > max_retries

\* a present, positive retry_after_ms is used for the wait
UsesHint(o) == o.retry_after_ms > 0

WaitMs(o, backoff_ms) == IF UsesHint(o) THEN o.retry_after_ms ELSE backoff_ms

\* mutant: the backoff doubles on every wait
NextBackoffEveryWait(o, backoff_ms) == backoff_ms * 2

NextBackoff(o, backoff_ms) == IF UsesHint(o) THEN backoff_ms ELSE backoff_ms * 2

\* how long a provider call takes when it returns at all: quick, or the whole
\* per-call timeout
CallDurations == {Latency, timeout * 1000}
QuickCalls == {Latency}

\* mutant: a deadline that leaves room for every attempt
OuterDeadlineAllAttempts(dispatched) ==
    dispatched + (timeout * (max_retries + 1) + HARD_DEADLINE_BUFFER) * 1000

\* the hard deadline asyncio.wait_for puts on one provider task
OuterDeadline(dispatched) == dispatched + (timeout + HARD_DEADLINE_BUFFER) * 1000

Task(r, i) == req[r].tasks[i]

\* a finished coroutine keeps no locals
Settled(t) == IF t.pc = "done" THEN [t EXCEPT !.backoff_ms = 0, !.call_start = 0, !.wake = 0]
              ELSE t

SetTask(r, i, t) == req' = [req EXCEPT ![r].tasks[i] = Settled(t)]

\* mutant: a rejected execute is counted as a failure on the breaker
BeginCountsRejection(r, i) ==
    /\ req[r].pc = "gather"
    /\ i \in DOMAIN req[r].tasks
    /\ Task(r, i).pc = "ready"
    /\ LET t == Task(r, i)
       IN IF InCooldown(StateOf(t.pid), now)
          THEN /\ SetTask(r, i, [t EXCEPT !.pc = "done", !.kind = "returned",
                                       !.open_at_start = StateOf(t.pid).cooldown_until > now,
                                       !.result = [OpenCircuitResult EXCEPT !.error_message =
                                                      CooldownMessage(StateOf(t.pid))]])
               /\ PROVIDER_STATE' = [PROVIDER_STATE EXCEPT
                                        ![t.pid] = BreakerAfterFailure(@, "provider_down", now)]
          ELSE /\ SetTask(r, i, [t EXCEPT !.pc = "call", !.attempt = 1,
                                       !.open_at_start = StateOf(t.pid).cooldown_until > now,
                                       !.call_start = now, !.calls = @ + 1])
               /\ UNCHANGED PROVIDER_STATE
    /\ UNCHANGED <<now, cache, started, served, fingerprints>>

\* first step of _query_with_retries: breaker check, then the first attempt
Begin(r, i) ==
    /\ req[r].pc = "gather"
    /\ i \in DOMAIN req[r].tasks
    /\ Task(r, i).pc = "ready"
    /\ LET t == Task(r, i)
       IN IF InCooldown(StateOf(t.pid), now)
          THEN SetTask(r, i, [t EXCEPT !.pc = "done", !.kind = "returned",
                                       !.open_at_start = StateOf(t.pid).cooldown_until > now,
                                       !.result = [OpenCircuitResult EXCEPT !.error_message =
                                                      CooldownMessage(StateOf(t.pid))]])
          ELSE SetTask(r, i, [t EXCEPT !.pc = "call", !.attempt = 1,
                                       !.open_at_start = StateOf(t.pid).cooldown_until > now,
                                       !.call_start = now, !.calls = @ + 1])
    /\ UNCHANGED <<now, PROVIDER_STATE, cache, started, served, fingerprints>>

\* await provider.query(...) ends.  It raises: the exception leaves
\* _query_with_retries at once.  It returns a result dict: the rest of the loop
\* body, and the breaker update and return when the loop ends
Query(r, i, o, D) ==
    /\ req[r].pc = "gather"
    /\ i \in DOMAIN req[r].tasks
    /\ Task(r, i).pc = "call"
    /\ now - Task(r, i).call_start \in D
    /\ LET t == Task(r, i)
           rt == o.response_time_ms
       IN IF o.kind = "raise"
          THEN /\ UNCHANGED PROVIDER_STATE
               /\ SetTask(r, i, [t EXCEPT !.pc = "done", !.kind = o.exc,
                                    !.result = [NoRes EXCEPT !.error_message = o.error_message]])
          ELSE IF o.kind = "success"
          THEN /\ PROVIDER_STATE' = [PROVIDER_STATE EXCEPT ![t.pid] = BreakerAfterSuccess(@)]
               /\ SetTask(r, i, [t EXCEPT !.pc = "done", !.kind = "returned",
                                    !.open_at_success = StateOf(t.pid).cooldown_until > now,
                                    !.result = Res("success", "missing", o.text, rt, 0,
                                                   t.attempt, FALSE)])
          ELSE IF StopsRetrying(ErrTypeOf(o), t.attempt)
          THEN /\ PROVIDER_STATE' = [PROVIDER_STATE EXCEPT
                                        ![t.pid] = BreakerAfterFailure(@, ErrTypeOf(o), now)]
               /\ SetTask(r, i, [t EXCEPT !.pc = "done", !.kind = "returned",
                                    !.result = [Res("error", o.error_type, "", rt,
                                                    o.retry_after_ms, t.attempt, FALSE)
                                                   EXCEPT !.error_message = o.error_message]])
          ELSE /\ UNCHANGED PROVIDER_STATE
               /\ SetTask(r, i, [t EXCEPT !.pc = "sleep",
                                    !.wake = now + WaitMs(o, t.backoff_ms),
                                    !.backoff_ms = NextBackoff(o, @),
                                    !.result = [Res("error", o.error_type, "", rt,
                                                    o.retry_after_ms, -1, FALSE)
                                                   EXCEPT !.error_message = o.error_message]])
    /\ UNCHANGED <<now, cache, started, served, fingerprints>>

\* asyncio.sleep is over: the next attempt
Wake(r, i) ==
    /\ req[r].pc = "gather"
    /\ i \in DOMAIN req[r].tasks
    /\ Task(r, i).pc = "sleep"
    /\ now >= Task(r, i).wake
    /\ SetTask(r, i, [Task(r, i) EXCEPT !.pc = "call", !.attempt = @ + 1,
                                        !.call_start = now, !.calls = @ + 1])
    /\ UNCHANGED <<now, PROVIDER_STATE, cache, started, served, fingerprints>>

\* mutant: the task is awaited without asyncio.wait_for and is never cancelled
NeverCancelled(r, i) == FALSE

\* mutant: the cancelled execute is counted as a failure on the breaker
OuterTimeoutCountsFailure(r, i) ==
    /\ req[r].pc = "gather"
    /\ i \in DOMAIN req[r].tasks
    /\ Task(r, i).pc \in {"call", "sleep"}
    /\ now >= OuterDeadline(req[r].dispatched)
    /\ SetTask(r, i, [Task(r, i) EXCEPT !.pc = "done", !.kind = "TimeoutError",
                                        !.cut = TRUE, !.result = NoRes])
    /\ PROVIDER_STATE' = [PROVIDER_STATE EXCEPT
                             ![Task(r, i).pid] = BreakerAfterFailure(@, "timeout", now)]
    /\ UNCHANGED <<now, cache, started, served, fingerprints>>

\* asyncio.wait_for cancels the task at the hard deadline
OuterTimeout(r, i) ==
    /\ req[r].pc = "gather"
    /\ i \in DOMAIN req[r].tasks
    /\ Task(r, i).pc \in {"call", "sleep"}
    /\ now >= OuterDeadline(req[r].dispatched)
    /\ SetTask(r, i, [Task(r, i) EXCEPT !.pc = "done", !.kind = "TimeoutError",
                                        !.cut = TRUE, !.result = NoRes])
    /\ UNCHANGED <<now, PROVIDER_STATE, cache, started, served, fingerprints>>

(* -------------------------------- cache -------------------------------- *)
\* select(Cache).where(query_hash, agent_id, user_id) + scalar_one_or_none():
\* Cache.user_id is evaluated first and raises when the table has no such column
CacheLookup(rows, query_hash, pid, user_id) ==
    IF "user_id" \notin CacheColumns THEN [kind |-> "raise", text |-> ""]
    ELSE LET m == {c \in rows : c.query_hash = query_hash /\ c.agent_id = pid
                                /\ c.user_id = user_id}
         IN IF m = {} THEN [kind |-> "none", text |-> ""]
            ELSE IF Cardinality(m) > 1 THEN [kind |-> "raise", text |-> ""]
            ELSE [kind |-> "hit", text |-> (CHOOSE c \in m : TRUE).response_text]

\* the dict put into cached_responses on a hit
CachedResult(text) == Res("success", "missing", text, 0, 0, -1, TRUE)

\* Cache(user_id=..., query_hash=..., agent_id=..., response_text=...): the
\* declarative constructor raises TypeError on a keyword that is no column
NewCacheRow(user_id, query_hash, pid, text) ==
    IF "user_id" \notin CacheColumns THEN {}
    ELSE {[query_hash |-> query_hash, agent_id |-> pid, user_id |-> user_id,
           response_text |-> text]}

\* db.commit(): query_hash is a unique column, a duplicate fails the whole commit
\* and the session is rolled back
Commit(rows, pending) ==
    IF \E a \in pending : \E b \in (rows \cup pending) : a # b /\ a.query_hash = b.query_hash
    THEN rows ELSE rows \cup pending

(* ---------------------------- orchestrate_query ------------------------ *)
Truthy(db) == db # "none"

\* mutant: a lookup that raised counts as found
IsHitOrRaise(rows, db, query_hash, pid, user_id) ==
    Truthy(db) /\ CacheLookup(rows, query_hash, pid, user_id).kind \in {"hit", "raise"}

\* the providers whose lookup is a hit, when a session is given
IsHit(rows, db, query_hash, pid, user_id) ==
    Truthy(db) /\ CacheLookup(rows, query_hash, pid, user_id).kind = "hit"

RECURSIVE CachedFrom(_, _, _, _, _)
CachedFrom(rows, db, query_hash, user_id, ids) ==
    IF ids = <<>> THEN EmptyDict
    ELSE LET rest == CachedFrom(rows, db, query_hash, user_id, SubSeq(ids, 1, Len(ids) - 1))
             pid == ids[Len(ids)]
         IN IF IsHit(rows, db, query_hash, pid, user_id)
            THEN DictSet(rest, pid,
                         CachedResult(CacheLookup(rows, query_hash, pid, user_id).text))
            ELSE rest

\* uncached_providers: every id whose lookup missed or raised; all of them without a session
UncachedOf(rows, db, query_hash, user_id, ids) ==
    SelectSeqBy(ids, {pid \in Range(ids) : ~IsHit(rows, db, query_hash, pid, user_id)})

\* mutant: the filter on PROVIDERS is left out
ToRunAll(uncached) == uncached

\* to_run = [pid for pid in uncached_providers if pid in PROVIDERS]
ToRun(uncached) == SelectSeqBy(uncached, PROVIDERS)

\* mutant: the uninitialized providers are forgotten
SkippedNone(ids) == <<>>

\* skipped_uninitialized = [pid for pid in provider_ids if pid not in PROVIDERS]
Skipped(ids) == SelectSeqBy(ids, Range(ids) \ PROVIDERS)

\* orchestrate_query up to the await of asyncio.gather.  provider_ids is a tagged
\* value: sorted() in generate_query_hash raises TypeError on a non-iterable
Orchestrate(r, via, caller, user_id, query_text, provider_ids, db) ==
    IF provider_ids.type # "list"
    THEN req' = [req EXCEPT ![r] = [IdleReq EXCEPT !.pc = "raised", !.via = via,
                                       !.caller_user = caller, !.user_id = user_id,
                                       !.finished = now]]
    ELSE LET ids == provider_ids.v
             h == generate_query_hash(user_id, query_text, ids)
             unc == UncachedOf(cache, db, h, user_id, ids)
         IN req' = [req EXCEPT ![r] =
                [IdleReq EXCEPT !.pc = "gather", !.via = via, !.caller_user = caller,
                    !.user_id = user_id, !.query_text = query_text, !.provider_ids = ids,
                    !.db = db, !.query_hash = h,
                    !.served_before = {pid \in Range(ids) :
                                          <<user_id, query_text, ids, pid>> \in served},
                    !.cached_responses = CachedFrom(cache, db, h, user_id, ids),
                    !.uncached_providers = unc,
                    !.to_run = ToRun(unc),
                    !.skipped_uninitialized = Skipped(ids),
                    !.dispatched = now,
                    !.tasks = [i \in 1..Len(ToRun(unc)) |-> NewTask(ToRun(unc)[i])]]]

Free(r) == req[r].pc = "idle" /\ \A q \in Requests : q < r => req[q].pc # "idle"

\* the moments at which clients send requests
Arrival(t) == t % ArrivalPeriod = 0 \/ \E p \in PROVIDERS : PROVIDER_STATE[p].cooldown_until = t

\* a call of orchestrate_query(user_id, query_text, provider_ids, db)
OrchestrateQuery(r, user, q, ids, db) ==
    /\ Free(r)
    /\ Arrival(now)
    /\ Orchestrate(r, "core", user, user, q, [type |-> "list", v |-> ids], db)
    /\ started' = started + 1
    /\ UNCHANGED <<now, PROVIDER_STATE, cache, served, fingerprints>>

\* POST /api/query: submit_query calls orchestrate_query(query_text, selected_agents, db)
SubmitQuery(r, user, q, agents) ==
    /\ Free(r)
    /\ \A i \in DOMAIN agents : agents[i] \in ProviderIds
    /\ Arrival(now)
    /\ Orchestrate(r, "handler", user, q, agents, [type |-> "AsyncSession", v |-> <<>>], "none")
    /\ started' = started + 1
    /\ UNCHANGED <<now, PROVIDER_STATE, cache, served, fingerprints>>

(* ------------------------------- fan-in -------------------------------- *)
\* (text or "").strip() is empty
IsBlank(text) == text \in {"", Blank}

\* mutant: the test for Exception comes first
GatheredExceptionFirst(t) ==
    IF t.kind # "returned"
    THEN [Res("error", "unknown", "", 0, 0, -1, FALSE)
             EXCEPT !.error_message = Prefix(t.result.error_message, 200)]
    ELSE [t.result EXCEPT !.cached = FALSE]

\* the entry built from what asyncio.gather returned for one task
Gathered(t) ==
    IF t.kind = "TimeoutError"
    THEN [Res("error", "timeout", "", timeout * 1000, 0, -1, FALSE)
             EXCEPT !.error_message = "Timed out after " \o ToString(timeout) \o "s"]
    ELSE IF t.kind # "returned"
    THEN [Res("error", "unknown", "", 0, 0, -1, FALSE)
             EXCEPT !.error_message = Prefix(t.result.error_message, 200)]
    ELSE [t.result EXCEPT !.cached = FALSE]

\* mutant: the status of the result is not looked at
ShouldStoreAny(db, t) == Truthy(db) /\ t.kind = "returned"

\* "Cache successful responses": the condition under which a row is built
ShouldStore(db, t) == Truthy(db) /\ t.kind = "returned" /\ t.result.status = "success"

NotInitialized ==
    [Res("error", "not_initialized", "", 0, 0, -1, FALSE)
        EXCEPT !.error_message = "Provider not initialized (missing API key?)"]

RECURSIVE NewResponses(_, _)
\* for provider_id, result in zip(to_run, results): new_responses[provider_id] = ...
NewResponses(tasks, n) ==
    IF n = 0 THEN EmptyDict
    ELSE DictSet(NewResponses(tasks, n - 1), tasks[n].pid, Gathered(tasks[n]))

RECURSIVE WithSkipped(_, _, _)
\* for pid in skipped_uninitialized: new_responses[pid] = {...not_initialized...}
WithSkipped(d, skipped, n) ==
    IF n = 0 THEN d
    ELSE DictSet(WithSkipped(d, skipped, n - 1), skipped[n], NotInitialized)

\* the tasks for which the store statement is reached
StoreTried(db, tasks) == {i \in DOMAIN tasks : ShouldStore(db, tasks[i])}

PendingRows(rq) ==
    UNION {NewCacheRow(rq.user_id, rq.query_hash, rq.tasks[i].pid,
                       rq.tasks[i].result.response_text) : i \in StoreTried(rq.db, rq.tasks)}

Usable(res) == res.status = "success" /\ ~IsBlank(res.response_text)

\* mutant: the last usable entry is taken
_pick_last_success_provider_id(responses) ==
    IF \E i \in DOMAIN responses.keys : Usable(responses.val[responses.keys[i]])
    THEN responses.keys[CHOOSE i \in DOMAIN responses.keys :
            /\ Usable(responses.val[responses.keys[i]])
            /\ \A j \in (i + 1)..Len(responses.keys) : ~Usable(responses.val[responses.keys[j]])]
    ELSE "none"

\* _pick_first_success_provider_id
_pick_first_success_provider_id(responses) ==
    IF \E i \in DOMAIN responses.keys : Usable(responses.val[responses.keys[i]])
    THEN responses.keys[CHOOSE i \in DOMAIN responses.keys :
            /\ Usable(responses.val[responses.keys[i]])
            /\ \A j \in 1..(i - 1) : ~Usable(responses.val[responses.keys[j]])]
    ELSE "none"

\* what the synthesis call can do: the prompt builder is looked up by name
\* first, and a NameError ends the try block before any provider call
SynthOutcomes(pid) ==
    IF "_build_synthesis_prompt" \notin DefinedNames
    THEN {Outcome("raise", "", "missing", 0, "NameError")}
    ELSE Outcomes(pid)

\* final_answer after the try block: None is ""
SynthAnswer(o) == IF o.kind = "success" /\ ~IsBlank(o.text) THEN o.text ELSE ""

\* mutant: the fallback takes the first success, blank or not
FinalAnswerAnySuccess(synth, responses) ==
    IF synth # "" THEN synth
    ELSE IF \E i \in DOMAIN responses.keys : responses.val[responses.keys[i]].status = "success"
    THEN responses.val[responses.keys[CHOOSE i \in DOMAIN responses.keys :
            /\ responses.val[responses.keys[i]].status = "success"
            /\ \A j \in 1..(i - 1) : responses.val[responses.keys[j]].status # "success"]].response_text
    ELSE NO_PROVIDER_SUCCEEDED

\* "Fallback if synthesis fails: first successful response", then the sentinel
FinalAnswer(synth, responses) ==
    IF synth # "" THEN synth
    ELSE IF _pick_first_success_provider_id(responses) # "none"
    THEN responses.val[_pick_first_success_provider_id(responses)].response_text
    ELSE NO_PROVIDER_SUCCEEDED

(* ------------------------------ metadata ------------------------------- *)
RECURSIVE GCD(_, _)
GCD(a, b) == IF b = 0 THEN a ELSE GCD(b, a % b)

\* a / b of Python, kept exact: the fraction in lowest terms
Div(a, b) == [num |-> a \div GCD(a, b), den |-> b \div GCD(a, b)]

RECURSIVE sum(_)
sum(s) == IF s = <<>> THEN 0 ELSE Head(s) + sum(Tail(s))

\* mutant: the status is not looked at
EveryResult(responses, n) == [i \in 1..n |-> responses.val[responses.keys[i]]]

RECURSIVE Successful(_, _)
\* successful = [r for r in all_responses.values() if r.get("status") == "success"]
Successful(responses, n) ==
    IF n = 0 THEN <<>>
    ELSE IF responses.val[responses.keys[n]].status = "success"
         THEN Append(Successful(responses, n - 1), responses.val[responses.keys[n]])
         ELSE Successful(responses, n - 1)

RECURSIVE ResponseTimes(_)
\* response_times = [r.get("response_time_ms", 0) for r in successful if not r.get("cached", False)]
ResponseTimes(successful) ==
    IF successful = <<>> THEN <<>>
    ELSE IF Head(successful).cached THEN ResponseTimes(Tail(successful))
         ELSE <<Head(successful).response_time_ms>> \o ResponseTimes(Tail(successful))

\* available_providers = [pid for pid in provider_ids if pid in PROVIDERS]
Available(ids) == SelectSeqBy(ids, PROVIDERS)

\* mutant: cached_count counts the cache lookups made, not the hits
MetadataCountsLookups(rq, all) ==
    LET successful == Successful(all, Len(all.keys))
        response_times == ResponseTimes(successful)
    IN [total_requested |-> Len(rq.provider_ids),
        total_available |-> Len(Available(rq.provider_ids)),
        skipped_uninitialized |-> rq.skipped_uninitialized,
        successful |-> Len(successful),
        failed |-> Len(all.keys) - Len(successful),
        avg_response_time_ms |-> IF response_times # <<>>
                                 THEN Div(sum(response_times), Len(response_times))
                                 ELSE Div(0, 1),
        cached_count |-> IF Truthy(rq.db) THEN Len(rq.provider_ids) ELSE 0,
        query_hash |-> rq.query_hash,
        synth_provider_id |-> _pick_first_success_provider_id(all)]

\* the metadata dict of the returned result
Metadata(rq, all) ==
    LET successful == Successful(all, Len(all.keys))
        response_times == ResponseTimes(successful)
    IN [total_requested |-> Len(rq.provider_ids),
        total_available |-> Len(Available(rq.provider_ids)),
        skipped_uninitialized |-> rq.skipped_uninitialized,
        successful |-> Len(successful),
        failed |-> Len(all.keys) - Len(successful),
        avg_response_time_ms |-> IF response_times # <<>>
                                 THEN Div(sum(response_times), Len(response_times))
                                 ELSE Div(0, 1),
        cached_count |-> Len(rq.cached_responses.keys),
        query_hash |-> rq.query_hash,
        synth_provider_id |-> _pick_first_success_provider_id(all)]

\* mutant: the results are taken as soon as one task is done
FirstDone(rq) == rq.tasks = <<>> \/ \E i \in DOMAIN rq.tasks : rq.tasks[i].pc = "done"

AllDone(rq) == \A i \in DOMAIN rq.tasks : rq.tasks[i].pc = "done"

\* asyncio.gather has every result: the rest of orchestrate_query
Finish(r) ==
    /\ req[r].pc = "gather"
    /\ AllDone(req[r])
    /\ LET rq == req[r]
           new == WithSkipped(NewResponses(rq.tasks, Len(rq.tasks)),
                              rq.skipped_uninitialized, Len(rq.skipped_uninitialized))
           all == DictMerge(rq.cached_responses, new)
           sp == _pick_first_success_provider_id(all)
       IN /\ \E commits \in BOOLEAN :     \* db.commit() can raise: rollback, nothing is written
                cache' = IF Truthy(rq.db) /\ commits THEN Commit(cache, PendingRows(rq)) ELSE cache
          /\ \E o \in (IF sp = "none" THEN {Outcome("none", "", "missing", 0, "none")} ELSE SynthOutcomes(sp)) :
                req' = [req EXCEPT ![r] =
                    [rq EXCEPT !.pc = "done", !.responses = all,
                               !.synth_provider_id = sp,
                               !.synth_called = (sp # "none" /\ o.kind \in {"success", "error"}),
                               !.synth_kind = o.kind, !.synth_text = o.text,
                               !.final_answer = FinalAnswer(SynthAnswer(o), all),
                               !.store_tried = StoreTried(rq.db, rq.tasks),
                               !.metadata = Metadata(rq, all),
                               !.finished = now]]
          /\ served' = served \cup {<<rq.user_id, rq.query_text, rq.provider_ids, rq.tasks[i].pid>> :
                                        i \in StoreTried(rq.db, rq.tasks)}
    /\ UNCHANGED <<now, PROVIDER_STATE, started, fingerprints>>

\* the caller has taken the result (or the exception) of the call
Retire(r) ==
    /\ req[r].pc \in {"done", "raised"}
    /\ req' = [req EXCEPT ![r] = IdleReq]
    /\ UNCHANGED <<now, PROVIDER_STATE, cache, started, served, fingerprints>>

(* -------------------------------- time --------------------------------- *)
Running == {<<r, i>> \in Requests \X (1..MaxProviders) :
                /\ req[r].pc = "gather" /\ i \in DOMAIN req[r].tasks
                /\ req[r].tasks[i].pc \in {"call", "sleep"}}

\* work the event loop runs before it lets time pass
Runnable ==
    \E r \in Requests :
        /\ req[r].pc = "gather"
        /\ \/ AllDone(req[r])
           \/ \E i \in DOMAIN req[r].tasks : req[r].tasks[i].pc = "ready"

\* timers of the event loop: they fire when they are due
Timers ==
    {OuterDeadline(req[x[1]].dispatched) : x \in Running}
    \cup {Task(x[1], x[2]).wake : x \in {y \in Running : Task(y[1], y[2]).pc = "sleep"}}

\* moments at which something can happen next
Moments(D) ==
    Timers
    \cup {Task(x[1], x[2]).call_start + d :
            x \in {y \in Running : Task(y[1], y[2]).pc = "call"}, d \in D}

\* moments at which the next request can arrive
Arrivals ==
    {PROVIDER_STATE[p].cooldown_until : p \in PROVIDERS}
    \cup {t \in {(now \div ArrivalPeriod + 1) * ArrivalPeriod} : t <= LastArrival * ArrivalPeriod}

Tick(N, D) ==
    /\ ~Runnable
    /\ \E t \in Moments(D) \cup (IF 0 < started /\ started < N THEN Arrivals ELSE {}) :
        /\ t > now
        /\ \A d \in Timers : t <= d
        /\ now' = t
    /\ UNCHANGED <<PROVIDER_STATE, cache, req, started, served, fingerprints>>

(* ---------------------------- specification ---------------------------- *)
PidAt(r, i) == IF i \in DOMAIN req[r].tasks THEN Task(r, i).pid ELSE "groq"

\* the calls that have begun and whose result has not been taken
Busy == {r \in Requests : req[r].pc # "idle"}

\* the next-state relation over given inputs: the number of calls side by
\* side, the number of requests, the users, the provider lists, the sessions,
\* what a provider call can do and how long it takes
NextUpTo(K, N, U, L, S, Out(_), D) ==
    \/ \E r \in Requests, u \in U, q \in Queries, ids \in L, db \in S :
            started < N /\ Cardinality(Busy) < K /\ OrchestrateQuery(r, u, q, ids, db)
    \/ \E r \in Requests, u \in U, q \in Queries, ids \in L :
            started < N /\ Cardinality(Busy) < K /\ SubmitQuery(r, u, q, ids)
    \/ \E r \in Requests, i \in 1..MaxProviders : Begin(r, i)
    \/ \E r \in Requests, i \in 1..MaxProviders :
            \E o \in Out(PidAt(r, i)) : Query(r, i, o, D)
    \/ \E r \in Requests, i \in 1..MaxProviders : Wake(r, i)
    \/ \E r \in Requests, i \in 1..MaxProviders : OuterTimeout(r, i)
    \/ \E r \in Requests : Finish(r)
    \/ \E r \in Requests : Retire(r)
    \/ Tick(N, D)

NextOn(N, U, L, S, Out(_), D) == NextUpTo(MaxConcurrent, N, U, L, S, Out, D)

\* one request over every provider list
Next == NextOn(FanOutRequests, {"1"}, ProviderLists, Sessions, FanOutOutcomes, QuickCalls)

Spec == Init /\ [][Next]_vars

\* the lists that name one provider, once or more
GroqLists == UNION {[1..n -> {"groq"}] : n \in 1..MaxProviders}

\* the event loop runs every coroutine that is ready, fires every timer that is
\* due, and its clock goes on; a call of provider.query need not ever return
Scheduling ==
    /\ WF_vars(\E r \in Requests, i \in 1..MaxProviders : Begin(r, i))
    /\ WF_vars(\E r \in Requests, i \in 1..MaxProviders : Wake(r, i))
    /\ WF_vars(\E r \in Requests, i \in 1..MaxProviders : OuterTimeout(r, i))
    /\ WF_vars(\E r \in Requests : Finish(r))
    /\ WF_vars(Tick(FanOutRequests, QuickCalls))

\* one request to groq, once or more in the list; a call answers, returns a
\* timeout error, raises, or never returns
LiveOutcomes(pid) ==
    {o \in FanOutOutcomes(pid) : o.text # Blank /\ o.error_type # "bad_request"
                                   /\ o.exc # "TimeoutError"}

NextLive == NextOn(FanOutRequests, {"1"}, GroqLists, {"none"}, LiveOutcomes, QuickCalls)

SpecLive == Init /\ [][NextLive]_vars /\ Scheduling

\* several requests to one provider, with every error category
NextBreaker == NextOn(MaxRequests, {"1"}, GroqLists, {"none"}, BreakerOutcomes, QuickCalls)

SpecBreaker == Init /\ [][NextBreaker]_vars

\* several requests to one provider whose calls, when they return, return a timeout error
TimeoutOutcomes(pid) == {o \in BreakerOutcomes(pid) : o.kind = "error" /\ o.error_type = "timeout"}

NextTimeout == NextOn(MaxRequests, {"1"}, GroqLists, {"none"}, TimeoutOutcomes, CallDurations)

SpecTimeout == Init /\ [][NextTimeout]_vars

\* a provider.query that gives up only when the whole per-call timeout is over
FullTimeoutCalls == {timeout * 1000}

\* several requests to one provider whose every call returns a timeout error
\* after the whole per-call timeout
NextSlow == NextOn(MaxRequests, {"1"}, GroqLists, {"none"}, TimeoutOutcomes, FullTimeoutCalls)

SpecSlow == Init /\ [][NextSlow]_vars

\* one request to one provider whose calls fail with every category, with and
\* without a retry_after_ms, or succeed
RetryLists == {<<"groq">>}

RetryOutcomes(pid) == {o \in Outcomes(pid) : o.kind = "error" \/ o.text = AnswerOf(pid)}

NextRetry == NextOn(FanOutRequests, {"1"}, RetryLists, {"none"}, RetryOutcomes, QuickCalls)

SpecRetry == Init /\ [][NextRetry]_vars

\* generate_query_hash on its own, called twice: agent_ids is any list of
\* strings, also one that holds the separator of the join
HashQueries == {"Explain X", "Explain X:groq"}

HashIds == {StringOrder[i] : i \in 1..Len(StringOrder)}

HashLists == UNION {[1..n -> HashIds] : n \in 1..MaxProviders}

GenerateQueryHash(user_id, query_text, agent_ids) ==
    /\ Len(fingerprints) < 2
    /\ fingerprints' = Append(fingerprints,
            [user_id |-> user_id, query_text |-> query_text, agent_ids |-> agent_ids,
             hash |-> generate_query_hash(user_id, query_text, agent_ids)])
    /\ UNCHANGED <<now, PROVIDER_STATE, cache, req, started, served>>

NextHash == \E u \in Users, q \in HashQueries, ids \in HashLists : GenerateQueryHash(u, q, ids)

SpecHash == Init /\ [][NextHash]_vars

\* two requests of two users, with and without a session
CacheLists == UNION {[1..n -> {"groq", "cohere"}] : n \in 1..MaxProviders}

CacheOutcomes(pid) ==
    {o \in Outcomes(pid) : o.error_type \in {"timeout", "bad_request", "missing"}
                            /\ o.retry_after_ms = 0 /\ o.text # Blank
                            /\ o.exc # "TimeoutError"}

NextCache == NextOn(CacheRequests, Users, CacheLists, Sessions, CacheOutcomes, QuickCalls)

SpecCache == Init /\ [][NextCache]_vars

Twice(s) == s \o s

\* a text of 256 characters
LongText == Twice(Twice(Twice(Twice(Twice(Twice(Twice(Twice("x"))))))))

\* messages the providers build from the body of an HTTP error answer, which
\* they cut at 100 or 200 characters, and str() of exceptions
RawMessages ==
    {ProviderMessage,
     "HTTP 500: {\n  \"error\": \"overloaded\"\n}",
     "HTTP 500: " \o Prefix(LongText, 200),
     Twice(Twice(LongText))}

ExceptionTexts == {ExceptionMessage, "Traceback:\n" \o Twice(LongText)}

\* one request whose providers fail with every kind of message
MessageOutcomes(pid) ==
    {[Outcome("error", "", e, 0, "none") EXCEPT !.error_message = format_error(m)] :
        e \in {"bad_request", "timeout"}, m \in RawMessages}
    \cup {[Outcome("raise", "", "missing", 0, "RuntimeError") EXCEPT !.error_message = m] :
            m \in ExceptionTexts}

NextMessage == NextOn(FanOutRequests, {"1"}, CacheLists, {"none"}, MessageOutcomes, QuickCalls)

SpecMessage == Init /\ [][NextMessage]_vars

\* identical requests with a session, side by side and one after another
DupLists == {<<"groq">>}

DupOutcomes(pid) ==
    {o \in Outcomes(pid) : \/ (o.kind = "success" /\ o.text = AnswerOf(pid))
                            \/ (o.kind = "error" /\ o.error_type = "timeout"
                                 /\ o.retry_after_ms = 0)}

NextDup == NextUpTo(DupRequests, DupRequests, {"1"}, DupLists, {"session"}, DupOutcomes, QuickCalls)

SpecDup == Init /\ [][NextDup]_vars

\* requests to one provider, named once in each list, two at a time side by
\* side; a call fails with a retryable or a categorical error, or succeeds
RaceOutcomes(pid) ==
    {o \in BreakerOutcomes(pid) : o.kind # "raise" /\ o.error_type \in {"timeout", "bad_request", "missing"}}

NextRace == NextUpTo(RaceConcurrent, RaceRequests, {"1"}, RetryLists, {"none"}, RaceOutcomes, QuickCalls)

SpecRace == Init /\ [][NextRace]_vars

\* several requests, each to groq alone or to groq and gemini; every call of
\* groq hangs, a call of gemini answers or returns a timeout error
HangLists == {<<"groq">>, <<"groq", "gemini">>}

HangOutcomes(pid) ==
    IF pid = "groq" THEN {}
    ELSE {o \in BreakerOutcomes(pid) : o.kind = "success" \/ o.error_type = "timeout"}

NextHang == NextOn(MaxRequests, {"1"}, HangLists, {"none"}, HangOutcomes, QuickCalls)

SpecHang == Init /\ [][NextHang]_vars

(* ------------------------------- claims -------------------------------- *)
TaskIds == Requests \X (1..MaxProviders)

IsTask(x) == x[2] \in DOMAIN req[x[1]].tasks

\* the tasks whose _query_with_retries has returned a result dict
Returned == {x \in TaskIds : IsTask(x) /\ Task(x[1], x[2]).pc = "done"
                             /\ Task(x[1], x[2]).kind = "returned"}

\* C1: an execute that ends with a failure of a category outside timeout,
\* rate_limited and provider_down leaves the breaker state of its provider as it
\* was: fail_count does not grow and no cooldown is set.
C1_CategoricalFailureLeavesBreaker ==
    [][\A x \in TaskIds :
          (/\ IsTask(x)
           /\ Task(x[1], x[2]).pc = "call"
           /\ req'[x[1]].tasks[x[2]].pc = "done"
           /\ req'[x[1]].tasks[x[2]].kind = "returned"
           /\ req'[x[1]].tasks[x[2]].result.status = "error"
           /\ req'[x[1]].tasks[x[2]].result.error_type \notin RETRYABLE_ERROR_TYPES)
          => PROVIDER_STATE'[Task(x[1], x[2]).pid] = PROVIDER_STATE[Task(x[1], x[2]).pid]]_vars

\* C2: with a provider whose calls return only timeout errors, the circuit is
\* open (a cooldown is set) exactly when fail_count has reached CIRCUIT_FAILS;
\* an execute that starts during the cooldown returns provider_down with
\* attempt 0, and every other execute ends in the timeout error after all
\* max_retries + 1 attempts.
C2_TimeoutsOpenCircuitAtThreshold ==
    /\ \A p \in PROVIDERS :
          PROVIDER_STATE[p].cooldown_until > 0 <=> PROVIDER_STATE[p].fail_count >= CIRCUIT_FAILS
    /\ \A x \in Returned :
          LET t == Task(x[1], x[2])
          IN IF t.open_at_start
             THEN t.result.status = "error" /\ t.result.error_type = "provider_down"
                  /\ t.result.attempt = 0
             ELSE t.result.status = "error" /\ t.result.error_type = "timeout"
                  /\ t.result.attempt = max_retries + 1

\* three executes have failed with timeouts, the circuit is open, and an execute
\* that started during the cooldown has been rejected
C2_Witness ==
    /\ PROVIDER_STATE["groq"].fail_count = CIRCUIT_FAILS
    /\ PROVIDER_STATE["groq"].cooldown_until > now
    /\ \E x \in Returned : Task(x[1], x[2]).open_at_start

\* C3: an execute that starts while cooldown_until is in the future returns at
\* once the error result provider_down with attempt 0, and has made no call of
\* provider.query.
C3_OpenCircuitRejectsWithoutCall ==
    \A x \in TaskIds :
        (IsTask(x) /\ Task(x[1], x[2]).pc # "ready" /\ Task(x[1], x[2]).open_at_start)
        => /\ Task(x[1], x[2]).pc = "done"
           /\ Task(x[1], x[2]).kind = "returned"
           /\ Task(x[1], x[2]).result.status = "error"
           /\ Task(x[1], x[2]).result.error_type = "provider_down"
           /\ Task(x[1], x[2]).result.attempt = 0
           /\ Task(x[1], x[2]).calls = 0

\* an execute was rejected in a request that also holds the open circuit's entry
C3_Witness ==
    \E r \in Requests :
        /\ req[r].pc = "done"
        /\ \E i \in DOMAIN req[r].tasks : req[r].tasks[i].open_at_start
        /\ Has(req[r].responses, "groq")
        /\ req[r].responses.val["groq"].error_type = "provider_down"

Done == {r \in Requests : req[r].pc = "done"}

\* the task whose entry stays in new_responses for its provider id
Last(rq, i) == \A j \in DOMAIN rq.tasks : rq.tasks[j].pid = rq.tasks[i].pid => j <= i

\* C4: when an earlier call with a session returned a fresh success of provider
\* P for the same user, query and provider list, a later call with a session
\* returns a cached result for P and does not call P.
C4_RepeatIsServedFromCache ==
    \A r \in Done :
        Truthy(req[r].db) =>
            \A pid \in req[r].served_before :
                /\ Has(req[r].responses, pid)
                /\ req[r].responses.val[pid].cached
                /\ \A i \in DOMAIN req[r].tasks : req[r].tasks[i].pid # pid

\* C5: the cache is scoped to the requesting user: the user id that the
\* fingerprint and the lookup of a request use is the id of the user who sent
\* it, and a cached result of a request comes from a row of that user.
C5_CacheIsScopedToRequestingUser ==
    \A r \in Requests :
        req[r].pc # "idle" =>
            /\ req[r].user_id = req[r].caller_user
            /\ \A pid \in Range(req[r].cached_responses.keys) :
                  \E c \in cache : c.user_id = req[r].caller_user /\ c.agent_id = pid

\* C6: the fan-out of a call is over no later than timeout + 10 s after its
\* dispatch, also with a provider that never returns; the entry of a task cut
\* by the deadline is the timeout error, and the entry of every task that
\* returned is its own result.
C6_HangIsCutAtDeadline ==
    \A r \in Requests :
        /\ req[r].pc = "gather" => now - req[r].dispatched <= (timeout + HARD_DEADLINE_BUFFER) * 1000
        /\ req[r].pc = "done" =>
            /\ req[r].finished - req[r].dispatched <= (timeout + HARD_DEADLINE_BUFFER) * 1000
            /\ \A i \in DOMAIN req[r].tasks :
                  LET t == req[r].tasks[i]
                      e == req[r].responses.val[t.pid]
                  IN Last(req[r], i) =>
                        /\ t.cut => e.status = "error" /\ e.error_type = "timeout"
                        /\ t.kind = "returned" =>
                              /\ e.status = t.result.status
                              /\ e.error_type = t.result.error_type
                              /\ e.response_text = t.result.response_text
                              /\ e.attempt = t.result.attempt

\* one provider hung until the deadline, its sibling answered
C6_Witness ==
    \E r \in Done :
        /\ req[r].finished - req[r].dispatched = (timeout + HARD_DEADLINE_BUFFER) * 1000
        /\ \E i, j \in DOMAIN req[r].tasks :
              /\ req[r].tasks[i].cut
              /\ req[r].tasks[i].pid # req[r].tasks[j].pid
              /\ req[r].tasks[j].kind = "returned"
              /\ req[r].responses.val[req[r].tasks[i].pid].error_type = "timeout"
              /\ req[r].responses.val[req[r].tasks[j].pid].status = "success"

\* C7: the result map of a call that returned has exactly the requested provider
\* ids as its keys, each once.
C7_OneResultPerRequestedProvider ==
    \A r \in Done :
        /\ Range(req[r].responses.keys) = Range(req[r].provider_ids)
        /\ DOMAIN req[r].responses.val = Range(req[r].provider_ids)
        /\ Len(req[r].responses.keys) = Cardinality(Range(req[r].provider_ids))
        /\ \A pid \in Range(req[r].provider_ids) :
              req[r].responses.val[pid].status \in {"success", "error"}

\* an uninitialized provider beside one whose task ended in an exception
C7_Witness ==
    \E r \in Done :
        /\ Cardinality(Range(req[r].provider_ids)) = 2
        /\ \E i \in DOMAIN req[r].tasks : req[r].tasks[i].kind \notin {"returned", "pending"}
        /\ req[r].skipped_uninitialized # <<>>
        /\ Truthy(req[r].db)

\* the tasks of a request in which provider.query raised
Raised(rq) == {i \in DOMAIN rq.tasks : rq.tasks[i].pc = "done" /\ ~rq.tasks[i].cut
                                       /\ rq.tasks[i].kind \in ExceptionKinds}

\* C8 as stated: when provider.query raises, the call still returns, the entry
\* of that provider is the error unknown, no further call is made, and the
\* entries of the other providers are their own results.
C8_RaiseBecomesUnknown ==
    \A r \in Done :
        \A i \in Raised(req[r]) :
            Last(req[r], i) =>
                /\ req[r].responses.val[req[r].tasks[i].pid].status = "error"
                /\ req[r].responses.val[req[r].tasks[i].pid].error_type = "unknown"

\* C8 as amended: the entry is the error unknown, or the error timeout when the
\* exception is a TimeoutError; the raising call is the last one of its task; a
\* call in which some provider raised still returns one entry per provider, and
\* a task that returned keeps its own result.
C8_RaiseBecomesErrorEntry ==
    /\ \A r \in Requests : \A i \in Raised(req[r]) :
          req[r].tasks[i].calls = req[r].tasks[i].attempt
    /\ \A r \in Done :
        \A i \in Raised(req[r]) :
            /\ Last(req[r], i) =>
                /\ req[r].responses.val[req[r].tasks[i].pid].status = "error"
                /\ req[r].responses.val[req[r].tasks[i].pid].error_type =
                      IF req[r].tasks[i].kind = "TimeoutError" THEN "timeout" ELSE "unknown"
            /\ \A j \in DOMAIN req[r].tasks :
                  (Last(req[r], j) /\ req[r].tasks[j].kind = "returned") =>
                      /\ req[r].responses.val[req[r].tasks[j].pid].status = req[r].tasks[j].result.status
                      /\ req[r].responses.val[req[r].tasks[j].pid].error_type =
                            req[r].tasks[j].result.error_type

\* one provider raised a RuntimeError on a retry, the other succeeded
C8_Witness ==
    \E r \in Done :
        \E i \in Raised(req[r]), j \in DOMAIN req[r].tasks :
            /\ req[r].tasks[i].kind = "RuntimeError"
            /\ req[r].tasks[i].attempt > 1
            /\ req[r].tasks[j].pid # req[r].tasks[i].pid
            /\ req[r].responses.val[req[r].tasks[i].pid].error_type = "unknown"
            /\ req[r].responses.val[req[r].tasks[j].pid].status = "success"

Succeeded(rq) == {pid \in Range(rq.responses.keys) : rq.responses.val[pid].status = "success"}

UsableIn(rq) == {pid \in Range(rq.responses.keys) : Usable(rq.responses.val[pid])}

\* C9 as stated: with no successful result the final answer is the sentinel;
\* with the primary provider (groq) failed and another provider successful, it
\* is the text of a successful provider, or the synthesized text.
C9_FinalAnswerFallback ==
    \A r \in Done :
        /\ Succeeded(req[r]) = {} => req[r].final_answer = NO_PROVIDER_SUCCEEDED
        /\ (Succeeded(req[r]) # {} /\ "groq" \notin Succeeded(req[r])) =>
              \/ req[r].synth_called
              \/ \E pid \in Succeeded(req[r]) :
                    req[r].final_answer = req[r].responses.val[pid].response_text

\* C9 as amended: with no successful result of non-blank text the final answer
\* is the sentinel; with the primary provider (groq) without such a result and
\* another provider with one, it is the text of the first such provider in the
\* order of the result map, or the synthesized text.
C9_FinalAnswerFallbackNonBlank ==
    \A r \in Done :
        /\ UsableIn(req[r]) = {} => req[r].final_answer = NO_PROVIDER_SUCCEEDED
        /\ (UsableIn(req[r]) # {} /\ "groq" \notin UsableIn(req[r])) =>
              \/ req[r].synth_called
              \/ \E i \in DOMAIN req[r].responses.keys :
                    /\ req[r].responses.keys[i] \in UsableIn(req[r])
                    /\ \A j \in 1..(i - 1) : req[r].responses.keys[j] \notin UsableIn(req[r])
                    /\ req[r].final_answer =
                          req[r].responses.val[req[r].responses.keys[i]].response_text

\* groq failed and gemini answered; and a call in which nothing succeeded
C9_Witness ==
    \E r \in Done :
        /\ Has(req[r].responses, "groq")
        /\ req[r].responses.val["groq"].status = "error"
        /\ "gemini" \in UsableIn(req[r])
        /\ req[r].final_answer = AnswerOf("gemini")

\* C10: the store statement is reached only for a task that returned a success,
\* in a call that was given a session; a task that returned an error, was cut by
\* the deadline or ended in an exception, and a provider that was not
\* initialized, never get a cache row.
C10_OnlyFreshSuccessIsStored ==
    /\ \A r \in Done :
          \A i \in DOMAIN req[r].tasks :
              i \in req[r].store_tried =>
                  /\ Truthy(req[r].db)
                  /\ req[r].tasks[i].kind = "returned"
                  /\ req[r].tasks[i].result.status = "success"
                  /\ req[r].responses.val[req[r].tasks[i].pid].cached = FALSE
    /\ \A c \in cache :
          \E k \in served : k[4] = c.agent_id /\ k[4] \in PROVIDERS
                            /\ c.query_hash = generate_query_hash(k[1], k[2], k[3])

\* with a session: one task stored its success, another returned an error, and
\* a provider was not initialized
C10_Witness ==
    \E r \in Done :
        /\ Truthy(req[r].db)
        /\ req[r].store_tried # {}
        /\ \E i \in DOMAIN req[r].tasks :
              i \notin req[r].store_tried /\ req[r].tasks[i].kind = "returned"
              /\ req[r].tasks[i].result.status = "error"

\* the requested providers of a call with a session whose result an earlier
\* call of the same user, query and list has handed to the store: the lookups
\* that are to hit
LookupsToHit(rq) == IF Truthy(rq.db) THEN rq.served_before ELSE {}

C12_UninitializedIsReportedNotRun ==
    /\ \A pid \in ProviderIds \ PROVIDERS : PROVIDER_STATE[pid] = DefaultState
    /\ \A r \in Requests :
          req[r].pc \in {"gather", "done"} =>
              \A pid \in Range(req[r].provider_ids) \ PROVIDERS :
                  /\ pid \notin Range(req[r].to_run)
                  /\ \A i \in DOMAIN req[r].tasks : req[r].tasks[i].pid # pid
                  /\ req[r].pc = "done" =>
                        /\ Has(req[r].responses, pid)
                        /\ req[r].responses.val[pid].status = "error"
                        /\ req[r].responses.val[pid].error_type = "not_initialized"
                        /\ req[r].responses.val[pid].cached = FALSE

\* cohere, which has no API key, was requested beside groq, which was called
C12_Witness ==
    \E r \in Done :
        /\ "cohere" \in Range(req[r].provider_ids)
        /\ req[r].responses.val["cohere"].error_type = "not_initialized"
        /\ \E i \in DOMAIN req[r].tasks : req[r].tasks[i].pid = "groq" /\ req[r].tasks[i].calls > 0

\* how often x occurs in the list s
Count(s, x) == Cardinality({i \in DOMAIN s : s[i] = x})

SameMultiset(s, t) == \A x \in Range(s) \cup Range(t) : Count(s, x) = Count(t, x)

HashedPairs == {<<fingerprints[i], fingerprints[j]>> : i, j \in DOMAIN fingerprints}

\* C13 as stated: the fingerprint depends only on the user id, the query text
\* and the set of requested provider ids: two calls have the same fingerprint
\* exactly when they agree on all three.
C13_FingerprintOfUserQueryAndSet ==
    \A x \in HashedPairs :
        x[1].hash = x[2].hash <=>
            /\ x[1].user_id = x[2].user_id
            /\ x[1].query_text = x[2].query_text
            /\ Range(x[1].agent_ids) = Range(x[2].agent_ids)

\* C13 as amended: calls that agree on the user id, the query text and the
\* provider ids with their multiplicities, in any order, have the same
\* fingerprint; and when no provider id holds a separator (":" or "|"), calls
\* that differ in the user id, the query text or the multiset of provider ids
\* have different fingerprints.
C13_FingerprintOfUserQueryAndMultiset ==
    \A x \in HashedPairs :
        LET same == /\ x[1].user_id = x[2].user_id
                    /\ x[1].query_text = x[2].query_text
                    /\ SameMultiset(x[1].agent_ids, x[2].agent_ids)
        IN /\ same => x[1].hash = x[2].hash
           /\ (Range(x[1].agent_ids) \cup Range(x[2].agent_ids) \subseteq ProviderIds)
                 => (x[1].hash = x[2].hash => same)

\* two calls whose provider lists are reorderings of each other, and two calls
\* that differ only in the user
C13_Witness ==
    /\ Len(fingerprints) = 2
    /\ fingerprints[1].agent_ids = <<"groq", "gemini">>
    /\ fingerprints[2].agent_ids = <<"gemini", "groq">>
    /\ fingerprints[1].user_id = fingerprints[2].user_id
    /\ fingerprints[1].query_text = fingerprints[2].query_text
    /\ fingerprints[1].hash = fingerprints[2].hash

\* C14: the step in which an attempt of _query_with_retries succeeds leaves the
\* state of its provider at fail_count = 0 and cooldown_until = 0, whatever the
\* state was, also when a concurrent failing execute opened the circuit after
\* this one had started.
C14_SuccessResetsBreaker ==
    [][\A x \in TaskIds :
          (/\ IsTask(x)
           /\ Task(x[1], x[2]).pc = "call"
           /\ req'[x[1]].tasks[x[2]].pc = "done"
           /\ req'[x[1]].tasks[x[2]].kind = "returned"
           /\ req'[x[1]].tasks[x[2]].result.status = "success")
          => /\ PROVIDER_STATE'[Task(x[1], x[2]).pid].fail_count = 0
             /\ PROVIDER_STATE'[Task(x[1], x[2]).pid].cooldown_until = 0]_vars

\* an execute succeeded while the circuit was open: a sibling execute for the
\* same provider had opened it
C14_Witness ==
    \E x \in Returned :
        /\ Task(x[1], x[2]).open_at_success
        /\ ~Task(x[1], x[2]).open_at_start
        /\ Task(x[1], x[2]).result.status = "success"
        /\ PROVIDER_STATE[Task(x[1], x[2]).pid] = DefaultState
        /\ \E i \in DOMAIN req[x[1]].tasks :
              /\ i # x[2]
              /\ req[x[1]].tasks[i].pid = Task(x[1], x[2]).pid
              /\ req[x[1]].tasks[i].kind = "returned"
              /\ req[x[1]].tasks[i].result.status = "error"

\* the provider that submit_query prefers
Primary == "groq"

\* the first of the providers S in the order of PROVIDER_CONFIGS
PriorityFirst(S) ==
    PROVIDER_CONFIGS[CHOOSE i \in 1..Len(PROVIDER_CONFIGS) :
        /\ PROVIDER_CONFIGS[i] \in S
        /\ \A j \in 1..(i - 1) : PROVIDER_CONFIGS[j] \notin S]

\* C15: when the result of the primary provider is a success (with text), the
\* final answer is the primary's text, whatever the order of the request list;
\* otherwise it is the text of the first successful provider in the order of
\* PROVIDER_CONFIGS (or, in both cases, the synthesized text).
C15_PrimaryIsPreferred ==
    \A r \in Done :
        UsableIn(req[r]) # {} =>
            \/ req[r].synth_called
            \/ req[r].final_answer =
                  req[r].responses.val[IF Primary \in UsableIn(req[r]) THEN Primary
                                       ELSE PriorityFirst(UsableIn(req[r]))].response_text

RECURSIVE errors(_, _)
\* submit_query: errors = [{agent_id, error_type, ...} for r in responses_list
\* if r.get("status") == "error"], over the first n entries of the result map
errors(responses, n) ==
    IF n = 0 THEN <<>>
    ELSE LET pid == responses.keys[n]
         IN IF responses.val[pid].status = "error"
            THEN Append(errors(responses, n - 1),
                        [agent_id |-> pid, error_type |-> responses.val[pid].error_type])
            ELSE errors(responses, n - 1)

\* the requests that came in through submit_query and have ended
Submitted == {r \in Requests : req[r].via = "handler" /\ req[r].pc \in {"done", "raised"}}

\* C16: a request sent to submit_query is answered with an errors list that has
\* exactly one entry, with the provider id and the error type, for each result
\* of status error, and none for a successful result.
C16_ErrorsListsTheFailedResults ==
    \A r \in Submitted :
        /\ req[r].pc = "done"
        /\ LET es == errors(req[r].responses, Len(req[r].responses.keys))
           IN \A pid \in Range(req[r].responses.keys) :
                 Cardinality({i \in DOMAIN es : es[i].agent_id = pid}) =
                    (IF req[r].responses.val[pid].status = "error" THEN 1 ELSE 0)

\* what a call without a session returns for the same tasks
NoCacheResponses(rq) ==
    WithSkipped(NewResponses(rq.tasks, Len(rq.tasks)),
                rq.skipped_uninitialized, Len(rq.skipped_uninitialized))

\* C17: a failure of the cache does not fail the call: a provider whose lookup
\* raises is dispatched as on a miss, a store or commit that fails writes
\* nothing, and the call returns the result map and the final answer of a call
\* without a session.
C17_CacheFailureIsAMiss ==
    \A r \in Requests :
        (Truthy(req[r].db) /\ req[r].pc # "idle") =>
            /\ req[r].pc \in {"gather", "done"}
            /\ \A pid \in Range(req[r].provider_ids) :
                  CacheLookup(cache, req[r].query_hash, pid, req[r].user_id).kind = "raise"
                     => pid \in Range(req[r].uncached_providers)
            /\ req[r].to_run = SelectSeqBy(req[r].provider_ids, PROVIDERS)
            /\ req[r].pc = "done" =>
                  /\ req[r].responses = NoCacheResponses(req[r])
                  /\ req[r].final_answer = FinalAnswer("", NoCacheResponses(req[r]))

\* with a session: the lookup raised, the provider was called and succeeded,
\* the store was tried and nothing was written
C17_Witness ==
    \E r \in Done :
        /\ Truthy(req[r].db)
        /\ req[r].store_tried # {}
        /\ cache = {}
        /\ \E i \in req[r].store_tried :
              /\ CacheLookup(cache, req[r].query_hash, req[r].tasks[i].pid, req[r].user_id).kind = "raise"
              /\ req[r].tasks[i].calls > 0
              /\ req[r].responses.val[req[r].tasks[i].pid].status = "success"
              /\ req[r].final_answer = req[r].tasks[i].result.response_text

\* the synthesis step of a request did not give a text: it raised, or returned
\* an error result or a blank text
SynthesisFailed(rq) ==
    /\ rq.synth_provider_id # "none"
    /\ \/ rq.synth_kind \in {"raise", "error"}
       \/ rq.synth_kind = "success" /\ IsBlank(rq.synth_text)

\* C18 as stated: when the synthesis step fails, the call still returns, and
\* its final answer is the raw text of the first provider in the result map
\* whose result is a success.
C18_SynthesisFailureFallsBackToFirstSuccess ==
    \A r \in Requests :
        /\ req[r].via = "core" => req[r].pc # "raised"
        /\ (req[r].pc = "done" /\ SynthesisFailed(req[r])) =>
              \E i \in DOMAIN req[r].responses.keys :
                  /\ req[r].responses.val[req[r].responses.keys[i]].status = "success"
                  /\ \A j \in 1..(i - 1) :
                        req[r].responses.val[req[r].responses.keys[j]].status # "success"
                  /\ req[r].final_answer =
                        req[r].responses.val[req[r].responses.keys[i]].response_text

\* C18 as amended: when the synthesis step fails, the call still returns, and
\* its final answer is the raw text of the chosen provider, which is the first
\* provider in the result map with a successful, non-blank result.
C18_SynthesisFailureFallsBack ==
    \A r \in Requests :
        /\ req[r].via = "core" => req[r].pc # "raised"
        /\ (req[r].pc = "done" /\ SynthesisFailed(req[r])) =>
              \E i \in DOMAIN req[r].responses.keys :
                  /\ req[r].responses.keys[i] = req[r].synth_provider_id
                  /\ Usable(req[r].responses.val[req[r].responses.keys[i]])
                  /\ \A j \in 1..(i - 1) : ~Usable(req[r].responses.val[req[r].responses.keys[j]])
                  /\ req[r].final_answer =
                        req[r].responses.val[req[r].synth_provider_id].response_text

\* two providers answered, the synthesis step raised, and the final answer is
\* the text of the first of them
C18_Witness ==
    \E r \in Done :
        /\ req[r].synth_kind = "raise"
        /\ req[r].provider_ids = <<"gemini", "groq">>
        /\ UsableIn(req[r]) = {"gemini", "groq"}
        /\ req[r].synth_provider_id = "gemini"
        /\ req[r].final_answer = AnswerOf("gemini")

FreshSuccesses(responses) ==
    {pid \in Range(responses.keys) :
        responses.val[pid].status = "success" /\ ~responses.val[pid].cached}

RECURSIVE TotalMs(_, _)
TotalMs(responses, S) ==
    IF S = {} THEN 0
    ELSE LET pid == CHOOSE x \in S : TRUE
         IN responses.val[pid].response_time_ms + TotalMs(responses, S \ {pid})

\* C20: in the metadata of a returned result, avg_response_time_ms is the mean
\* of response_time_ms over the results that are a success and not cached (0
\* when there is none), total_requested is total_available plus the number of
\* skipped_uninitialized, and successful + failed is the number of results.
C20_MetadataCounts ==
    \A r \in Done :
        LET m == req[r].metadata
            fresh == FreshSuccesses(req[r].responses)
        IN /\ m.avg_response_time_ms.num * Cardinality(fresh) =
                 TotalMs(req[r].responses, fresh) * m.avg_response_time_ms.den
           /\ fresh = {} => m.avg_response_time_ms.num = 0
           /\ m.total_requested = m.total_available + Len(m.skipped_uninitialized)
           /\ m.total_requested = Len(req[r].provider_ids)
           /\ m.successful + m.failed = Len(req[r].responses.keys)
           /\ m.successful = Cardinality({pid \in Range(req[r].responses.keys) :
                                             req[r].responses.val[pid].status = "success"})

\* two providers answered with different response times, and the average lies
\* between the two
C20_Witness ==
    \E r \in Done :
        /\ FreshSuccesses(req[r].responses) = {"groq", "gemini"}
        /\ req[r].responses.val["groq"].response_time_ms
              # req[r].responses.val["gemini"].response_time_ms
        /\ req[r].metadata.successful = 2
        /\ req[r].metadata.avg_response_time_ms.num * 2 =
              (req[r].responses.val["groq"].response_time_ms
               + req[r].responses.val["gemini"].response_time_ms)
                  * req[r].metadata.avg_response_time_ms.den

\* the entries of a returned result map that are errors
ErrorEntries(rq) == {pid \in Range(rq.responses.keys) : rq.responses.val[pid].status = "error"}

NoLineBreak(s) == \A i \in 1..Len(s) : SubSeq(s, i, i) # "\n"

\* C21: the error_message of every error entry of a returned result map has no
\* line break and at most 140 characters, whichever path produced the error.
C21_ErrorMessagesAreNormalized ==
    \A r \in Done :
        \A pid \in ErrorEntries(req[r]) :
            /\ Len(req[r].responses.val[pid].error_message) <= 140
            /\ NoLineBreak(req[r].responses.val[pid].error_message)

\* C22: with a provider whose every attempt ends in a timeout error after the
\* whole per-call timeout, an execute whose first attempt has ended that way
\* ends only after max_retries + 1 attempts, and the step that ends it adds one
\* to fail_count.
C22_FullTimeoutsAreRecorded ==
    [][\A x \in TaskIds :
          (/\ IsTask(x)
           /\ Task(x[1], x[2]).pc \in {"call", "sleep"}
           /\ Task(x[1], x[2]).calls >= 2
           /\ req'[x[1]].tasks[x[2]].pc = "done")
          => /\ req'[x[1]].tasks[x[2]].calls = max_retries + 1
             /\ req'[x[1]].tasks[x[2]].kind = "returned"
             /\ PROVIDER_STATE'[Task(x[1], x[2]).pid].fail_count =
                   PROVIDER_STATE[Task(x[1], x[2]).pid].fail_count + 1]_vars

\* C23: one execute calls provider.query at most max_retries + 1 times; after a
\* call that returned a success it makes no further call; and the attempt field
\* of the result it returns is the number of calls it has made.
C23_AttemptsAreBoundedAndCounted ==
    /\ \A x \in TaskIds : IsTask(x) => Task(x[1], x[2]).calls <= max_retries + 1
    /\ \A x \in Returned : Task(x[1], x[2]).result.attempt = Task(x[1], x[2]).calls

\* one execute succeeded on its second call, a sibling gave up after its third
C23_Witness ==
    \E r \in Done :
        \E i, j \in DOMAIN req[r].tasks :
            /\ req[r].tasks[i].kind = "returned" /\ req[r].tasks[j].kind = "returned"
            /\ req[r].tasks[i].result.status = "success"
            /\ req[r].tasks[i].result.attempt = 2 /\ req[r].tasks[i].calls = 2
            /\ req[r].tasks[j].result.status = "error"
            /\ req[r].tasks[j].result.attempt = max_retries + 1
            /\ req[r].tasks[j].calls = max_retries + 1

\* the step in which a call of provider.query returns an error result to the
\* retry loop of task x
FailedAttempt(x) ==
    /\ IsTask(x)
    /\ Task(x[1], x[2]).pc = "call"
    /\ req'[x[1]].tasks[x[2]].pc \in {"done", "sleep"}
    /\ req'[x[1]].tasks[x[2]].result.status = "error"

\* after a failed attempt the execute ends at once when the category is not
\* retryable or the attempts are used up, and waits for the next attempt otherwise
StopsOrWaits(x) ==
    FailedAttempt(x) =>
        LET t == Task(x[1], x[2])
            u == req'[x[1]].tasks[x[2]]
        IN IF ErrTypeOf(u.result) \notin RETRYABLE_ERROR_TYPES \/ t.attempt = max_retries + 1
           THEN u.pc = "done" /\ u.kind = "returned" /\ u.calls = t.calls
                /\ u.result.attempt = t.attempt
           ELSE u.pc = "sleep" /\ u.calls = t.calls

\* the wait between two attempts ends with the next call of provider.query
NextAttemptFollows(x) ==
    (IsTask(x) /\ Task(x[1], x[2]).pc = "sleep") =>
        \/ req'[x[1]].tasks[x[2]] = Task(x[1], x[2])
        \/ /\ req'[x[1]].tasks[x[2]].pc = "call"
           /\ req'[x[1]].tasks[x[2]].calls = Task(x[1], x[2]).calls + 1

\* the wait is ended by the hard deadline of the task
CutWhileWaiting(x) ==
    /\ IsTask(x)
    /\ Task(x[1], x[2]).pc = "sleep"
    /\ req'[x[1]].tasks[x[2]].cut
    /\ now >= OuterDeadline(req[x[1]].dispatched)

\* C24 as stated: a failed attempt of a category outside timeout, rate_limited
\* and provider_down ends the execute after that attempt, without a wait or a
\* further call; a failed attempt of a category in that set is followed by
\* another attempt unless max_retries + 1 attempts have been made.
C24_RetryableIsRetried ==
    [][\A x \in TaskIds : StopsOrWaits(x) /\ NextAttemptFollows(x)]_vars

\* C24 as amended: ... is followed by a wait and another attempt unless
\* max_retries + 1 attempts have been made or the hard deadline of the task
\* ends the wait.
C24_RetryableIsRetriedUnlessCut ==
    [][\A x \in TaskIds :
          StopsOrWaits(x) /\ (NextAttemptFollows(x) \/ CutWhileWaiting(x))]_vars

\* an execute was ended by bad_request on its second attempt, after a
\* retryable failure and a wait
C24_Witness ==
    \E x \in Returned :
        /\ Task(x[1], x[2]).result.error_type = "bad_request"
        /\ Task(x[1], x[2]).result.attempt = 2
        /\ Task(x[1], x[2]).calls = 2
        /\ now >= BACKOFF_BASE_MS

C26_FanInBarrier ==
    \A r \in Requests :
        /\ req[r].pc = "gather" =>
              /\ req[r].responses = EmptyDict
              /\ req[r].final_answer = ""
              /\ req[r].metadata = <<>>
              /\ req[r].synth_provider_id = "none"
        /\ req[r].pc = "done" =>
              \A i \in DOMAIN req[r].tasks :
                  /\ req[r].tasks[i].pc = "done"
                  /\ req[r].tasks[i].kind # "pending"
                  /\ Has(req[r].responses, req[r].tasks[i].pid)
                  /\ (Last(req[r], i) /\ req[r].tasks[i].kind = "returned") =>
                        req[r].responses.val[req[r].tasks[i].pid].status =
                            req[r].tasks[i].result.status

\* one provider answered on its first attempt after 200 ms; the call returned
\* only when its sibling had given up after three attempts
C26_Witness ==
    \E r \in Done :
        \E i, j \in DOMAIN req[r].tasks :
            /\ req[r].tasks[i].result.status = "success"
            /\ req[r].tasks[i].result.attempt = 1
            /\ req[r].tasks[j].kind = "returned"
            /\ req[r].tasks[j].result.attempt = max_retries + 1
            /\ req[r].tasks[j].pid # req[r].tasks[i].pid
            /\ req[r].finished - req[r].dispatched = 3 * Latency + 3 * BACKOFF_BASE_MS
            /\ req[r].metadata.successful = 1
            /\ req[r].metadata.failed = 1

\* the executes of a request that ended in a failure: the retry loop was left
\* with an error result
EndedInFailure(rq) ==
    {i \in DOMAIN rq.tasks : /\ rq.tasks[i].pc = "done" /\ rq.tasks[i].kind = "returned"
                              /\ ~rq.tasks[i].open_at_start
                              /\ rq.tasks[i].result.status = "error"}

\* C27: no breaker update is lost: the step in which an execute ends in a
\* failure adds exactly one to the fail_count of its provider, whatever the
\* other executes for that provider are doing, so that after N concurrent
\* executes of the first request have failed fail_count is N; and the circuit
\* is open as soon as fail_count has reached CIRCUIT_FAILS.
C27_NoLostBreakerUpdate ==
    /\ [][\A x \in TaskIds :
              (/\ IsTask(x)
               /\ Task(x[1], x[2]).pc = "call"
               /\ req'[x[1]].tasks[x[2]].pc = "done"
               /\ req'[x[1]].tasks[x[2]].kind = "returned"
               /\ req'[x[1]].tasks[x[2]].result.status = "error")
              => PROVIDER_STATE'[Task(x[1], x[2]).pid].fail_count =
                    PROVIDER_STATE[Task(x[1], x[2]).pid].fail_count + 1]_vars
    /\ [](\A r \in Requests :
              (started = 1 /\ req[r].pc \in {"gather", "done"}) =>
                  \A pid \in PROVIDERS :
                      PROVIDER_STATE[pid].fail_count =
                          Cardinality({i \in EndedInFailure(req[r]) : req[r].tasks[i].pid = pid}))
    /\ [](\A pid \in PROVIDERS :
              PROVIDER_STATE[pid].fail_count >= CIRCUIT_FAILS
                  => PROVIDER_STATE[pid].cooldown_until > 0)

\* two executes for groq ran side by side in the first request, both failed,
\* and fail_count is 2
C27_Witness ==
    \E r \in Done :
        /\ started = 1
        /\ Cardinality(EndedInFailure(req[r])) = 2
        /\ \A i \in EndedInFailure(req[r]) : req[r].tasks[i].pid = "groq"
        /\ PROVIDER_STATE["groq"].fail_count = 2

\* two calls with the same user, query and provider list
Identical(a, b) ==
    a.user_id = b.user_id /\ a.query_text = b.query_text /\ a.provider_ids = b.provider_ids

\* the calls a and b have returned and were in progress at the same time
Overlapped(a, b) ==
    /\ a.pc = "done" /\ b.pc = "done"
    /\ a.dispatched < b.finished /\ b.dispatched < a.finished

\* the providers whose fresh success a call handed to the store
HandedToStore(rq) == {rq.tasks[i].pid : i \in rq.store_tried}

\* C28: when two identical calls with a session overlap, both miss the cache,
\* both call the provider and both store its success, neither call fails, and
\* a later identical call returns a cached result for that provider.
C28_DuplicateWritesAreHarmless ==
    /\ \A r \in Requests : req[r].via = "core" => req[r].pc # "raised"
    /\ \A a, b, c \in Requests :
          (/\ a # b /\ Overlapped(req[a], req[b]) /\ Identical(req[a], req[b])
           /\ Truthy(req[a].db) /\ Truthy(req[b].db)
           /\ req[c].pc = "done" /\ Identical(req[a], req[c]) /\ Truthy(req[c].db)
           /\ req[c].dispatched >= req[a].finished /\ req[c].dispatched >= req[b].finished)
          => \A pid \in HandedToStore(req[a]) \cap HandedToStore(req[b]) :
                /\ Has(req[c].responses, pid)
                /\ req[c].responses.val[pid].cached

\* C29: an execute that begins when the time has reached cooldown_until is let
\* through and calls provider.query, whatever fail_count is, and the breaker
\* state is left as it is by the check: no success and no reset is needed first.
C29_HalfOpenByAttempt ==
    [][\A x \in TaskIds :
          (/\ IsTask(x)
           /\ Task(x[1], x[2]).pc = "ready"
           /\ req'[x[1]].tasks[x[2]].pc # "ready"
           /\ PROVIDER_STATE[Task(x[1], x[2]).pid].cooldown_until <= now)
          => /\ req'[x[1]].tasks[x[2]].pc = "call"
             /\ req'[x[1]].tasks[x[2]].calls = 1
             /\ ~req'[x[1]].tasks[x[2]].open_at_start
             /\ PROVIDER_STATE' = PROVIDER_STATE]_vars

\* the first call of an execute is in progress although the circuit was
\* tripped and never reset: it began at the moment the cooldown ended
C29_Witness ==
    \E x \in TaskIds :
        /\ IsTask(x)
        /\ Task(x[1], x[2]).pc = "call"
        /\ Task(x[1], x[2]).calls = 1
        /\ Task(x[1], x[2]).call_start = PROVIDER_STATE[Task(x[1], x[2]).pid].cooldown_until
        /\ PROVIDER_STATE[Task(x[1], x[2]).pid].fail_count >= CIRCUIT_FAILS

\* the tasks a request has launched for provider pid
TasksFor(rq, pid) == {i \in DOMAIN rq.tasks : rq.tasks[i].pid = pid}

\* C30: a request launches exactly one task for each requested provider that
\* is in PROVIDERS and was not found in the cache, and none for any other, also
\* when the provider list names an id more than once.
C30_OneTaskPerProvider ==
    \A r \in Requests :
        req[r].pc \in {"gather", "done"} =>
            \A pid \in ProviderIds :
                Cardinality(TasksFor(req[r], pid)) =
                    (IF pid \in Range(req[r].uncached_providers) \cap PROVIDERS THEN 1 ELSE 0)

\* the step starts a call of provider.query in task x
StartsCall(x) ==
    /\ req[x[1]].pc = "gather" /\ req'[x[1]].pc = "gather"
    /\ IsTask(x)
    /\ req'[x[1]].tasks[x[2]].calls = Task(x[1], x[2]).calls + 1

\* C31 (as stated): with requests side by side, no call of provider.query, a
\* first attempt or a retry, starts at a moment when the provider's
\* cooldown_until lies in the future.
C31_NoCallWhileOpen ==
    [][\A x \in TaskIds : StartsCall(x) => PROVIDER_STATE[Task(x[1], x[2]).pid].cooldown_until <= now]_vars

\* C31 (amended): with requests side by side, the first attempt of an execute
\* never starts at a moment when the provider's cooldown_until lies in the
\* future; the later attempts of an execute that passed the check are not gated.
C31_NoFirstCallWhileOpen ==
    [][\A x \in TaskIds :
          (StartsCall(x) /\ Task(x[1], x[2]).calls = 0) => PROVIDER_STATE[Task(x[1], x[2]).pid].cooldown_until <= now]_vars

\* two requests side by side: the first attempt of one has just begun while
\* the other is between attempts, one failure short of the threshold
C31_Witness ==
    \E x \in TaskIds, y \in TaskIds :
        /\ x[1] # y[1] /\ IsTask(x) /\ IsTask(y)
        /\ req[x[1]].pc = "gather" /\ req[y[1]].pc = "gather"
        /\ Task(x[1], x[2]).pid = Task(y[1], y[2]).pid
        /\ Task(x[1], x[2]).pc = "call" /\ Task(x[1], x[2]).calls = 1
        /\ Task(y[1], y[2]).pc = "sleep"
        /\ PROVIDER_STATE[Task(x[1], x[2]).pid].fail_count = CIRCUIT_FAILS - 1

\* the step is the cancellation of task x by asyncio.wait_for
CutsNow(x) ==
    /\ req[x[1]].pc = "gather" /\ req'[x[1]].pc = "gather"
    /\ IsTask(x)
    /\ ~Task(x[1], x[2]).cut /\ req'[x[1]].tasks[x[2]].cut

\* the tasks launched for the provider whose calls never return
HangingTasks == {x \in TaskIds : IsTask(x) /\ Task(x[1], x[2]).pid = "groq"}

\* C32: the hard deadline that cancels a provider task leaves PROVIDER_STATE as
\* it is; a provider whose every call hangs keeps fail_count 0 and
\* cooldown_until 0 over all requests, and every request that names it calls
\* it once and ends with the task cut.
C32_CutLeavesBreaker ==
    /\ [][\A x \in TaskIds : CutsNow(x) => PROVIDER_STATE' = PROVIDER_STATE]_vars
    /\ [](PROVIDER_STATE["groq"] = DefaultState)
    /\ [](\A x \in HangingTasks :
            Task(x[1], x[2]).pc # "ready" =>
                /\ Task(x[1], x[2]).calls = 1
                /\ ~Task(x[1], x[2]).open_at_start
                /\ Task(x[1], x[2]).pc = "done" => Task(x[1], x[2]).cut)

\* the last of the requests is calling the hanging provider, which was
\* cut off in every request before
C32_Witness ==
    /\ started = MaxRequests
    /\ now >= (MaxRequests - 1) * ArrivalPeriod
    /\ \E x \in HangingTasks : Task(x[1], x[2]).pc = "call"

\* the step in which the execute of task x ends and returns a result dict
ReturnsNow(x) ==
    /\ req[x[1]].pc = "gather" /\ req'[x[1]].pc = "gather"
    /\ IsTask(x)
    /\ Task(x[1], x[2]).pc = "call"
    /\ req'[x[1]].tasks[x[2]].pc = "done"
    /\ req'[x[1]].tasks[x[2]].kind = "returned"

\* C33: in every state, for every provider, fail_count >= 0 and cooldown_until
\* is non-zero only if fail_count >= CIRCUIT_FAILS.  fail_count counts failed
\* executes in a row: it changes only when an execute of that provider returns,
\* by one up on an error result and to 0 (with cooldown_until 0) on a success,
\* so the circuit is never open below the threshold.
C33_BreakerEntryIsConsistent ==
    /\ [](\A p \in ProviderIds :
            /\ PROVIDER_STATE[p].fail_count >= 0
            /\ PROVIDER_STATE[p].cooldown_until >= 0
            /\ PROVIDER_STATE[p].cooldown_until # 0 => PROVIDER_STATE[p].fail_count >= CIRCUIT_FAILS
            /\ PROVIDER_STATE[p].fail_count < CIRCUIT_FAILS => ~(PROVIDER_STATE[p].cooldown_until > now))
    /\ [][\A p \in ProviderIds :
            PROVIDER_STATE'[p] # PROVIDER_STATE[p] =>
                \E x \in TaskIds :
                    /\ ReturnsNow(x)
                    /\ Task(x[1], x[2]).pid = p
                    /\ IF req'[x[1]].tasks[x[2]].result.status = "success"
                       THEN PROVIDER_STATE'[p] = DefaultState
                       ELSE PROVIDER_STATE'[p].fail_count = PROVIDER_STATE[p].fail_count + 1]_vars

\* the circuit is open, and the request whose two executes failed last is
\* finished: one of them brought fail_count to the threshold
C33_Witness ==
    \E r \in Done :
        /\ Len(req[r].tasks) = 2
        /\ \A i \in DOMAIN req[r].tasks :
              /\ req[r].tasks[i].kind = "returned"
              /\ req[r].tasks[i].result.status = "error"
              /\ req[r].tasks[i].result.attempt >= 1
        /\ PROVIDER_STATE[req[r].tasks[1].pid].fail_count >= CIRCUIT_FAILS
        /\ PROVIDER_STATE[req[r].tasks[1].pid].cooldown_until > now

\* the circuit of the provider of task x was opened and its cooldown is over
CooldownElapsed(x) ==
    /\ PROVIDER_STATE[Task(x[1], x[2]).pid].fail_count >= CIRCUIT_FAILS
    /\ PROVIDER_STATE[Task(x[1], x[2]).pid].cooldown_until <= now

\* C34: the passing of time leaves fail_count as it is.  When the cooldown of
\* an opened circuit is over, the next execute that returns a failure makes
\* fail_count one more and sets cooldown_until a whole COOLDOWN_SECONDS ahead,
\* and an execute that returns a success puts the entry back to fail_count 0
\* and cooldown_until 0.
C34_ExpiryKeepsFailCount ==
    [][/\ now' # now => PROVIDER_STATE' = PROVIDER_STATE
       /\ \A x \in TaskIds :
            (ReturnsNow(x) /\ CooldownElapsed(x)) =>
                LET pid == Task(x[1], x[2]).pid
                IN IF req'[x[1]].tasks[x[2]].result.status = "success"
                   THEN PROVIDER_STATE'[pid] = DefaultState
                   ELSE /\ PROVIDER_STATE'[pid].fail_count = PROVIDER_STATE[pid].fail_count + 1
                        /\ PROVIDER_STATE'[pid].cooldown_until = now + COOLDOWN_SECONDS * 1000]_vars

\* a request with one execute, let through after the cooldown, has failed:
\* fail_count is above the threshold and the circuit is open again for
\* COOLDOWN_SECONDS from the failure
C34_Witness ==
    \E r \in Requests :
        /\ req[r].pc = "gather"
        /\ Len(req[r].tasks) = 1
        /\ req[r].tasks[1].kind = "returned"
        /\ req[r].tasks[1].result.status = "error"
        /\ ~req[r].tasks[1].open_at_start
        /\ PROVIDER_STATE[req[r].tasks[1].pid].fail_count > CIRCUIT_FAILS
        /\ PROVIDER_STATE[req[r].tasks[1].pid].cooldown_until = now + COOLDOWN_SECONDS * 1000

\* the step in which the execute of task x is rejected by the breaker check
RejectsNow(x) ==
    /\ req[x[1]].pc = "gather" /\ req'[x[1]].pc = "gather"
    /\ IsTask(x)
    /\ Task(x[1], x[2]).pc = "ready"
    /\ req'[x[1]].tasks[x[2]].pc = "done"
    /\ req'[x[1]].tasks[x[2]].result.error_type = "provider_down"
    /\ req'[x[1]].tasks[x[2]].result.attempt = 0

\* C35: an execute that is rejected because cooldown_until lies in the future
\* writes nothing to PROVIDER_STATE: fail_count and cooldown_until of every
\* provider are after the rejection what they were before it.
C35_RejectionLeavesBreaker ==
    [][\A x \in TaskIds : RejectsNow(x) => PROVIDER_STATE' = PROVIDER_STATE]_vars

\* an execute has just been rejected; the cooldown still is the one that was
\* set before its request was dispatched
C35_Witness ==
    \E x \in TaskIds :
        /\ IsTask(x)
        /\ req[x[1]].pc = "gather"
        /\ Task(x[1], x[2]).pc = "done"
        /\ Task(x[1], x[2]).open_at_start
        /\ Task(x[1], x[2]).result.attempt = 0
        /\ now = req[x[1]].dispatched
        /\ PROVIDER_STATE[Task(x[1], x[2]).pid].cooldown_until > now
        /\ PROVIDER_STATE[Task(x[1], x[2]).pid].cooldown_until < now + COOLDOWN_SECONDS * 1000

best(responses) ==
    IF Has(responses, "groq") /\ responses.val["groq"].status = "success" THEN "groq"
    ELSE IF \E i \in DOMAIN responses.keys : responses.val[responses.keys[i]].status = "success"
    THEN responses.keys[CHOOSE i \in DOMAIN responses.keys :
            /\ responses.val[responses.keys[i]].status = "success"
            /\ \A j \in 1..(i - 1) : responses.val[responses.keys[j]].status # "success"]
    ELSE "none"

\* final_answer = best.get("response_text") if best else "No provider succeeded. Try again."
SubmitFinalAnswer(responses) ==
    IF best(responses) # "none" THEN responses.val[best(responses)].response_text
    ELSE NO_PROVIDER_SUCCEEDED

\* C37: the final answer the caller gets is never empty or blank, whatever
\* the providers did: the final_answer of a result of orchestrate_query, and
\* the final_answer of the answer submit_query gives to a request, which
\* therefore ends with an answer.
C37_FinalAnswerNeverBlank ==
    /\ \A r \in Done : ~IsBlank(req[r].final_answer)
    /\ \A r \in Submitted :
          /\ req[r].pc = "done"
          /\ ~IsBlank(SubmitFinalAnswer(req[r].responses))

====
